---- MODULE Spec2Model ----
(***************************************************************************)
(* Copy-on-write trie of src/primer/trie.cpp: Trie::Get, Trie::Put and     *)
(* Trie::Remove over a heap of reference-counted nodes.                    *)
(*                                                                         *)
(* A node is a heap cell addressed by a positive integer; nullptr is 0.    *)
(* Every call is written as a small-step machine over its local variables  *)
(* (one step per loop iteration / recursion level), so that the same       *)
(* translation serves the sequential specification (a call runs to its     *)
(* return in one action) and the interleaved one (one step per action).    *)
(***************************************************************************)
EXTENDS Integers, Sequences, FiniteSets, TLC

\* ---------------------------------------------------------------- bounds
MaxKeyLen == 2
MaxOps == 4
ConcMaxOps == 2
WritersMaxOps == 3

\* ---------------------------------------------------------------- inputs
Symbols == {"a", "b"}
Types == {"uint32_t", "uint64_t"}
Values == {1, 2}

Null == 0
NoType == "TrieNode"
NoValue == 0

RECURSIVE KeysOfLen(_)
KeysOfLen(n) ==
  IF n = 0 THEN {<<>>}
  ELSE {Append(k, c) : k \in KeysOfLen(n - 1), c \in Symbols}

Keys == UNION {KeysOfLen(n) : n \in 0..MaxKeyLen}

\* ---------------------------------------------------------------- nodes
EmptyMap == [c \in {} |-> Null]

\* children[ch] = n
MapSet(m, ch, n) == [c \in DOMAIN m \cup {ch} |-> IF c = ch THEN n ELSE m[c]]

\* children.erase(ch)
MapErase(m, ch) == [c \in DOMAIN m \ {ch} |-> m[c]]

\* TrieNode(children): a plain node, is_value_node_ false
TrieNode(children) ==
  [children_ |-> children, is_value_node_ |-> FALSE, type |-> NoType, value_ |-> NoValue]

\* TrieNodeWithValue<T>(children, value): is_value_node_ true, dynamic type T
TrieNodeWithValue(children, ty, v) ==
  [children_ |-> children, is_value_node_ |-> TRUE, type |-> ty, value_ |-> v]

\* node->Clone(): virtual; same children map (children shared), same flag and payload
Clone(h, id) ==
  IF h[id].is_value_node_
    THEN TrieNodeWithValue(h[id].children_, h[id].type, h[id].value_)
    ELSE TrieNode(h[id].children_)

\* std::make_shared: the new node's address is the next free cell
NewId(h) == Len(h) + 1
Alloc(h, n) == Append(h, n)

\* ---------------------------------------------------------------- Get
NotFound == [status |-> "nullptr", value |-> NoValue]
Found(v) == [status |-> "found", value |-> v]
GetFault == [status |-> "fault", value |-> NoValue]

\* mutant: a static cast, the payload is handed out whatever its type
GetCast_Unchecked(h, node, ty) ==
  IF node # Null /\ h[node].is_value_node_ THEN Found(h[node].value_) ELSE NotFound

\* lines 26-30: dynamic_pointer_cast to TrieNodeWithValue<T>
GetCast(h, node, ty) ==
  IF node # Null /\ h[node].type = ty THEN Found(h[node].value_) ELSE NotFound

\* the local state of a Get call at its entry
GetEntry(t, root, key, ty) ==
  [pc |-> "start", trie |-> t, root_ |-> root, key |-> key, type |-> ty,
   node |-> Null, i |-> 0, result |-> NotFound, alone |-> NotFound]

\* one step of Get: the entry test, one loop iteration, or the cast
GetStep(h, r) ==
  IF r.pc = "start"
    THEN IF r.root_ = Null
           THEN [r EXCEPT !.pc = "done", !.result = NotFound]
           ELSE [r EXCEPT !.pc = "walk", !.node = r.root_]
    ELSE IF r.i < Len(r.key)
      THEN LET ch == r.key[r.i + 1] IN
           IF r.node = Null  \* node->children_ on a null pointer
             THEN [r EXCEPT !.pc = "done", !.result = GetFault]
           ELSE IF ch \notin DOMAIN h[r.node].children_
             THEN [r EXCEPT !.pc = "done", !.result = NotFound]
             ELSE [r EXCEPT !.node = h[r.node].children_[ch], !.i = r.i + 1]
      ELSE [r EXCEPT !.pc = "done", !.result = GetCast(h, r.node, r.type)]

\* lines 18-30 from loop index i on: the rest of the walk, then the cast
RECURSIVE GetWalk(_, _, _, _, _)
GetWalk(h, node, key, i, ty) ==
  IF i < Len(key)
    THEN IF node = Null THEN GetFault
         ELSE IF key[i + 1] \notin DOMAIN h[node].children_ THEN NotFound
         ELSE GetWalk(h, h[node].children_[key[i + 1]], key, i + 1, ty)
    ELSE GetCast(h, node, ty)

\* Trie{root}.Get<ty>(key), from entry to return
Get(h, root, key, ty) ==
  IF root = Null THEN NotFound ELSE GetWalk(h, root, key, 0, ty)

\* ---------------------------------------------------------------- Put
\* the local state of a Put / Remove call at its entry
CallEntry(op, b, root, key, ty, v) ==
  [pc |-> "start", op |-> op, base |-> b, root_ |-> root, key |-> key,
   type |-> ty, value |-> v, root |-> Null, node |-> Null, i |-> 0,
   stack |-> <<>>, ret |-> Null, steps |-> 0]

Out(h, w) == [h |-> h, w |-> w]

\* a dereference of a null pointer
Fault(h, w) == Out(h, [w EXCEPT !.pc = "fault"])

\* mutant: the value root for the empty key starts with no children
PutEmptyKey_NoChildren(h, w) ==
  Out(Alloc(h, TrieNodeWithValue(EmptyMap, w.type, w.value)),
      [w EXCEPT !.pc = "done", !.ret = NewId(h)])

\* lines 41-46: the empty key; the value node takes the old root's children
PutEmptyKey(h, w) ==
  LET n == IF w.root_ = Null
             THEN TrieNodeWithValue(EmptyMap, w.type, w.value)
             ELSE TrieNodeWithValue(h[w.root_].children_, w.type, w.value)
  IN Out(Alloc(h, n), [w EXCEPT !.pc = "done", !.ret = NewId(h)])

\* mutant: an existing root is taken over as the root of the new Trie, no Clone
PutRoot_NoClone(h, w) ==
  IF w.root_ = Null
    THEN Out(Alloc(h, TrieNode(EmptyMap)),
             [w EXCEPT !.pc = "loop", !.root = NewId(h), !.node = NewId(h), !.i = 0])
    ELSE Out(h, [w EXCEPT !.pc = "loop", !.root = w.root_, !.node = w.root_, !.i = 0])

\* lines 48-49: the new root is a fresh node or a clone of the old root
PutRoot(h, w) ==
  LET n == IF w.root_ = Null THEN TrieNode(EmptyMap) ELSE Clone(h, w.root_)
  IN Out(Alloc(h, n),
         [w EXCEPT !.pc = "loop", !.root = NewId(h), !.node = NewId(h), !.i = 0])

\* mutant: the child on the path is always a new empty node, never a clone
PutLoopIter_Fresh(h, w) ==
  LET ch == w.key[w.i + 1]
      nnode == NewId(h)
      h1 == Alloc(h, TrieNode(EmptyMap))
  IN Out([h1 EXCEPT ![w.node].children_ = MapSet(h[w.node].children_, ch, nnode)],
         [w EXCEPT !.node = nnode, !.i = w.i + 1])

\* mutant: an existing child is descended into as it is, without Clone
PutLoopIter_InPlace(h, w) ==
  LET ch == w.key[w.i + 1]
      children == h[w.node].children_
      nnode == NewId(h)
  IN IF ch \in DOMAIN children
       THEN Out(h, [w EXCEPT !.node = children[ch], !.i = w.i + 1])
       ELSE Out([Alloc(h, TrieNode(EmptyMap)) EXCEPT
                   ![w.node].children_ = MapSet(children, ch, nnode)],
                [w EXCEPT !.node = nnode, !.i = w.i + 1])

\* lines 52-58: one iteration; clone (or create) the child, relink it into the
\* node of the new path, descend
PutLoopIter(h, w) ==
  IF w.node = Null THEN Fault(h, w) ELSE
  LET ch == w.key[w.i + 1]
      children == h[w.node].children_
      n == IF ch \notin DOMAIN children THEN TrieNode(EmptyMap)
           ELSE Clone(h, children[ch])
      nnode == NewId(h)
      h1 == Alloc(h, n)
  IN IF ch \in DOMAIN children /\ children[ch] = Null THEN Fault(h, w) ELSE
     Out([h1 EXCEPT ![w.node].children_ = MapSet(children, ch, nnode)],
         [w EXCEPT !.node = nnode, !.i = w.i + 1])

\* mutant: an existing value node at the key is cloned, keeping its old payload
PutFinalSymbol_KeepOld(h, w) ==
  LET ch == w.key[Len(w.key)]
      children == h[w.node].children_
      n == IF ch \in DOMAIN children
             THEN IF h[children[ch]].is_value_node_ THEN Clone(h, children[ch])
                  ELSE TrieNodeWithValue(h[children[ch]].children_, w.type, w.value)
             ELSE TrieNodeWithValue(EmptyMap, w.type, w.value)
      h1 == Alloc(h, n)
  IN Out([h1 EXCEPT ![w.node].children_ = MapSet(children, ch, NewId(h))],
         [w EXCEPT !.pc = "done", !.ret = w.root])

\* mutant: the value node at the key never takes the existing child's children
PutFinalSymbol_NoChildren(h, w) ==
  LET ch == w.key[Len(w.key)]
      h1 == Alloc(h, TrieNodeWithValue(EmptyMap, w.type, w.value))
  IN Out([h1 EXCEPT ![w.node].children_ = MapSet(h[w.node].children_, ch, NewId(h))],
         [w EXCEPT !.pc = "done", !.ret = w.root])

\* lines 60-67: the final symbol; the value node takes the existing child's children
PutFinalSymbol(h, w) ==
  IF w.node = Null THEN Fault(h, w) ELSE
  LET ch == w.key[Len(w.key)]
      children == h[w.node].children_
      n == IF ch \in DOMAIN children
             THEN TrieNodeWithValue(h[children[ch]].children_, w.type, w.value)
             ELSE TrieNodeWithValue(EmptyMap, w.type, w.value)
      h1 == Alloc(h, n)
  IN IF ch \in DOMAIN children /\ children[ch] = Null THEN Fault(h, w) ELSE
     Out([h1 EXCEPT ![w.node].children_ = MapSet(children, ch, NewId(h))],
         [w EXCEPT !.pc = "done", !.ret = w.root])

\* one step of Trie::Put
PutStep(h, w) ==
  IF w.pc = "start"
    THEN IF Len(w.key) = 0 THEN PutEmptyKey(h, w) ELSE PutRoot(h, w)
    ELSE IF w.i < Len(w.key) - 1 THEN PutLoopIter(h, w) ELSE PutFinalSymbol(h, w)

\* ---------------------------------------------------------------- Remove
\* mutant: the empty key on a root without a value returns the empty Trie
RemoveEmptyKey_NoValueNull(h, w) ==
  IF h[w.root_].is_value_node_ /\ DOMAIN h[w.root_].children_ # {}
    THEN Out(Alloc(h, TrieNode(h[w.root_].children_)),
             [w EXCEPT !.pc = "done", !.ret = NewId(h)])
    ELSE Out(h, [w EXCEPT !.pc = "done", !.ret = Null])

\* mutant: a value root with children is cloned, value and all
RemoveEmptyKey_KeepValue(h, w) ==
  IF h[w.root_].is_value_node_ /\ DOMAIN h[w.root_].children_ = {}
    THEN Out(h, [w EXCEPT !.pc = "done", !.ret = Null])
    ELSE Out(Alloc(h, Clone(h, w.root_)), [w EXCEPT !.pc = "done", !.ret = NewId(h)])

\* mutant: a root without a value is handed back as it is, no Clone
RemoveEmptyKey_ReturnThis(h, w) ==
  IF h[w.root_].is_value_node_
    THEN IF DOMAIN h[w.root_].children_ = {}
           THEN Out(h, [w EXCEPT !.pc = "done", !.ret = Null])
           ELSE Out(Alloc(h, TrieNode(h[w.root_].children_)),
                    [w EXCEPT !.pc = "done", !.ret = NewId(h)])
    ELSE Out(h, [w EXCEPT !.pc = "done", !.ret = w.root_])

\* mutant: a childless value root is replaced by an empty root without a value
RemoveEmptyKey_EmptyRoot(h, w) ==
  IF h[w.root_].is_value_node_
    THEN Out(Alloc(h, TrieNode(h[w.root_].children_)),
             [w EXCEPT !.pc = "done", !.ret = NewId(h)])
    ELSE Out(Alloc(h, Clone(h, w.root_)), [w EXCEPT !.pc = "done", !.ret = NewId(h)])

\* lines 75-87: the empty trie and the empty key
RemoveEmptyKey(h, w) ==
  IF h[w.root_].is_value_node_
    THEN IF DOMAIN h[w.root_].children_ = {}
           THEN Out(h, [w EXCEPT !.pc = "done", !.ret = Null])
           ELSE Out(Alloc(h, TrieNode(h[w.root_].children_)),
                    [w EXCEPT !.pc = "done", !.ret = NewId(h)])
    ELSE Out(Alloc(h, Clone(h, w.root_)), [w EXCEPT !.pc = "done", !.ret = NewId(h)])

\* mutant: remove_node(root_, 0), the old root itself is rewritten
RemoveRoot_NoClone(h, w) ==
  Out(h, [w EXCEPT !.pc = "enter", !.stack = <<w.root_>>])

\* line 117: remove_node(root_->Clone(), 0); the stack holds the `node` of every
\* active call of remove_node, call number index at position index + 1
RemoveRoot(h, w) ==
  Out(Alloc(h, Clone(h, w.root_)), [w EXCEPT !.pc = "enter", !.stack = <<NewId(h)>>])

\* remove_node returns p to its caller (or to line 117 from the outermost call)
Return(h, w, p) ==
  LET rest == SubSeq(w.stack, 1, Len(w.stack) - 1)
  IN Out(h, [w EXCEPT !.stack = rest, !.ret = p,
                      !.pc = IF rest = <<>> THEN "done" ELSE "unwind"])

\* mutant: a null new_child is stored in the children map instead of erased
RemoveRelink_NoErase(h, w, node, ch, new_child) ==
  Return([h EXCEPT ![node].children_ = MapSet(h[node].children_, ch, new_child)], w, node)

\* mutant: the node is returned even when it is left childless without a value
RemoveRelink_NoPrune(h, w, node, ch, new_child) ==
  LET children == IF new_child # Null THEN MapSet(h[node].children_, ch, new_child)
                  ELSE MapErase(h[node].children_, ch)
  IN Return([h EXCEPT ![node].children_ = children], w, node)

\* mutant: a node left childless is dropped even when it holds a value
RemoveRelink_PruneValue(h, w, node, ch, new_child) ==
  LET children == IF new_child # Null THEN MapSet(h[node].children_, ch, new_child)
                  ELSE MapErase(h[node].children_, ch)
      h1 == [h EXCEPT ![node].children_ = children]
  IN IF DOMAIN children = {} THEN Return(h1, w, Null) ELSE Return(h1, w, node)

\* lines 105-115: relink or erase the child, drop the node when it is left
\* childless and holds no value
RemoveRelink(h, w, node, ch, new_child) ==
  LET children == IF new_child # Null THEN MapSet(h[node].children_, ch, new_child)
                  ELSE MapErase(h[node].children_, ch)
      h1 == [h EXCEPT ![node].children_ = children]
  IN IF DOMAIN children = {} /\ ~h[node].is_value_node_
       THEN Return(h1, w, Null)
       ELSE Return(h1, w, node)

\* mutant: a symbol missing from the children map makes remove_node return nullptr
RemoveEnter_AbsentNull(h, w) ==
  LET node == w.stack[Len(w.stack)]
      index == Len(w.stack) - 1
      n == Len(w.key)
      ch == w.key[index + 1]
      children == h[node].children_
      child == children[ch]
  IN IF ch \notin DOMAIN children THEN Return(h, w, Null)
     ELSE IF index = n - 1 /\ ~h[child].is_value_node_ THEN Return(h, w, node)
     ELSE IF index = n - 1
       THEN IF DOMAIN h[child].children_ # {}
              THEN RemoveRelink(Alloc(h, TrieNode(h[child].children_)), w, node, ch, NewId(h))
              ELSE RemoveRelink(h, w, node, ch, Null)
       ELSE Out(Alloc(h, Clone(h, child)), [w EXCEPT !.stack = Append(w.stack, NewId(h))])

\* mutant: at the final symbol the child is erased together with its children
RemoveEnter_DropSubtree(h, w) ==
  LET node == w.stack[Len(w.stack)]
      index == Len(w.stack) - 1
      n == Len(w.key)
      ch == w.key[index + 1]
      children == h[node].children_
      child == children[ch]
  IN IF ch \notin DOMAIN children THEN Return(h, w, node)
     ELSE IF index = n - 1 /\ ~h[child].is_value_node_ THEN Return(h, w, node)
     ELSE IF index = n - 1 THEN RemoveRelink(h, w, node, ch, Null)
     ELSE Out(Alloc(h, Clone(h, child)), [w EXCEPT !.stack = Append(w.stack, NewId(h))])

\* lines 89-103: remove_node(node, index) from its entry to its recursive call
\* or, at the final symbol, to its return
RemoveEnter(h, w) ==
  LET node == w.stack[Len(w.stack)]
      index == Len(w.stack) - 1
      n == Len(w.key)
      ch == w.key[index + 1]
      children == h[node].children_
      child == children[ch]
  IN IF node = Null THEN Fault(h, w)
     ELSE IF ch \notin DOMAIN children THEN Return(h, w, node)
     ELSE IF child = Null THEN Fault(h, w)
     ELSE IF index = n - 1 /\ ~h[child].is_value_node_ THEN Return(h, w, node)
     ELSE IF index = n - 1
       THEN IF DOMAIN h[child].children_ # {}
              THEN RemoveRelink(Alloc(h, TrieNode(h[child].children_)), w, node, ch, NewId(h))
              ELSE RemoveRelink(h, w, node, ch, Null)
       ELSE Out(Alloc(h, Clone(h, child)), [w EXCEPT !.stack = Append(w.stack, NewId(h))])

\* mutant: only the call at the final symbol prunes; a caller relinks or erases
\* its child and returns its node whatever is left of it
RemoveUnwind_NoPrune(h, w) ==
  LET node == w.stack[Len(w.stack)]
      ch == w.key[Len(w.stack)]
      children == IF w.ret # Null THEN MapSet(h[node].children_, ch, w.ret)
                  ELSE MapErase(h[node].children_, ch)
  IN Return([h EXCEPT ![node].children_ = children], w, node)

\* lines 102-115: remove_node(node, index) from the return of its recursive call
RemoveUnwind(h, w) ==
  LET node == w.stack[Len(w.stack)]
      index == Len(w.stack) - 1
  IN RemoveRelink(h, w, node, w.key[index + 1], w.ret)

\* one step of Trie::Remove
RemoveStep(h, w) ==
  IF w.pc = "start"
    THEN IF w.root_ = Null THEN Out(h, [w EXCEPT !.pc = "done", !.ret = Null])
         ELSE IF Len(w.key) = 0 THEN RemoveEmptyKey(h, w)
         ELSE RemoveRoot(h, w)
    ELSE IF w.pc = "enter" THEN RemoveEnter(h, w)
    ELSE RemoveUnwind(h, w)

\* ---------------------------------------------------------------- calls
\* one step of a mutating call
CallStep(h, w) ==
  LET o == IF w.op = "Put" THEN PutStep(h, w) ELSE RemoveStep(h, w)
  IN Out(o.h, [o.w EXCEPT !.steps = w.steps + 1])

Running(w) == w.pc \notin {"idle", "done", "fault"}

\* a call from its entry to its return
RECURSIVE CallRun(_, _)
CallRun(h, w) ==
  IF Running(w) THEN LET o == CallStep(h, w) IN CallRun(o.h, o.w) ELSE Out(h, w)

\* ---------------------------------------------------------------- state
VARIABLES
  heap,     \* the nodes allocated so far; heap[id] is the node at address id
  tries,    \* the Trie values returned so far, each with the call that made it
  writers,  \* the local state of each thread inside Put / Remove
  readers   \* the local state of each thread inside Get

vars == <<heap, tries, writers, readers>>

WriterIds == {1, 2}
ReaderIds == {1}

Idle == [CallEntry("none", 0, Null, <<>>, NoType, NoValue) EXCEPT !.pc = "idle"]
GetIdle == [GetEntry(0, Null, <<>>, NoType) EXCEPT !.pc = "idle"]

\* Trie{w.ret}, remembered with the call that returned it
Version(w) ==
  [root |-> w.ret, op |-> w.op, base |-> w.base, key |-> w.key, type |-> w.type,
   value |-> w.value, pc |-> w.pc, steps |-> w.steps]

\* Trie(): no root
Init ==
  /\ heap = <<>>
  /\ tries = <<Version([Idle EXCEPT !.op = "Trie", !.pc = "done"])>>
  /\ writers = [w \in WriterIds |-> Idle]
  /\ readers = [r \in ReaderIds |-> GetIdle]

\* ------------------------------------------- sequential specification
\* tries[b].Put<ty>(key, v), from entry to return
Put(b, key, ty, v) ==
  /\ Len(tries) <= MaxOps
  /\ LET o == CallRun(heap, CallEntry("Put", b, tries[b].root, key, ty, v))
     IN /\ heap' = o.h
        /\ tries' = Append(tries, Version(o.w))
  /\ UNCHANGED <<writers, readers>>

\* tries[b].Remove(key), from entry to return
Remove(b, key) ==
  /\ Len(tries) <= MaxOps
  /\ LET o == CallRun(heap, CallEntry("Remove", b, tries[b].root, key, NoType, NoValue))
     IN /\ heap' = o.h
        /\ tries' = Append(tries, Version(o.w))
  /\ UNCHANGED <<writers, readers>>

\* the Trie values a call can be made on: a faulted call returned none
Usable == {b \in 1..Len(tries) : tries[b].pc = "done"}

\* the sequential program derives each Trie from the one it got last
Latest == {b \in Usable : b = Len(tries)}

Next ==
  \/ \E b \in Latest, key \in Keys, ty \in Types, v \in Values : Put(b, key, ty, v)
  \/ \E b \in Latest, key \in Keys : Remove(b, key)

Spec == Init /\ [][Next]_vars

\* ------------------------------------------- interleaved specification
\* the calls begun so far: those that returned and those still running
Begun(ws) == Len(tries) - 1 + Cardinality({w \in ws : writers[w].pc # "idle"})

\* thread w enters tries[b].Put<ty>(key, v) or tries[b].Remove(key)
Call(w, op, b, key, ty, v) ==
  /\ writers[w].pc = "idle"
  /\ Begun(WriterIds) < ConcMaxOps
  /\ writers' = [writers EXCEPT ![w] = CallEntry(op, b, tries[b].root, key, ty, v)]
  /\ UNCHANGED <<heap, tries, readers>>

\* thread w takes one step of its call; the step that reaches the return
\* statement hands out the new Trie
Step(w) ==
  /\ Running(writers[w])
  /\ LET o == CallStep(heap, writers[w])
     IN /\ heap' = o.h
        /\ IF Running(o.w)
             THEN writers' = [writers EXCEPT ![w] = o.w] /\ tries' = tries
             ELSE writers' = [writers EXCEPT ![w] = Idle]
                  /\ tries' = Append(tries, Version(o.w))
  /\ UNCHANGED readers

\* thread r enters tries[t].Get<ty>(key); `alone` remembers what the call
\* returns when nothing runs beside it
GetCall(r, t, key, ty) ==
  /\ readers[r].pc \in {"idle", "done"}
  /\ readers' = [readers EXCEPT ![r] =
       [GetEntry(t, tries[t].root, key, ty) EXCEPT
          !.alone = Get(heap, tries[t].root, key, ty)]]
  /\ UNCHANGED <<heap, tries, writers>>

\* thread r takes one step of its Get
GetNext(r) ==
  /\ readers[r].pc \in {"start", "walk"}
  /\ readers' = [readers EXCEPT ![r] = GetStep(heap, readers[r])]
  /\ UNCHANGED <<heap, tries, writers>>

ConcNext ==
  \/ \E b \in Usable, key \in Keys, ty \in Types, v \in Values :
       Call(1, "Put", b, key, ty, v)
  \/ \E b \in Usable, key \in Keys : Call(1, "Remove", b, key, NoType, NoValue)
  \/ Step(1)
  \/ \E r \in ReaderIds, t \in Usable, key \in Keys, ty \in Types : GetCall(r, t, key, ty)
  \/ \E r \in ReaderIds : GetNext(r)

ConcSpec == Init /\ [][ConcNext]_vars

\* ------------------------------------------- two writers, interleaved
\* thread w enters a call while the other thread may be inside one
WriterCall(w, op, b, key, ty, v) ==
  /\ writers[w].pc = "idle"
  /\ Begun(WriterIds) < WritersMaxOps
  /\ writers' = [writers EXCEPT ![w] = CallEntry(op, b, tries[b].root, key, ty, v)]
  /\ UNCHANGED <<heap, tries, readers>>

\* thread 1 makes the calls that run alone; thread 2 enters a call on the same
\* base Trie when thread 1 has entered one and not yet taken a step (entering
\* reads nothing but the Trie's root pointer, so a later entry adds no
\* interleaving); each thread puts its own value
WritersNext ==
  \/ \E b \in Usable, key \in Keys, ty \in Types : WriterCall(1, "Put", b, key, ty, 1)
  \/ \E b \in Usable, key \in Keys : WriterCall(1, "Remove", b, key, NoType, NoValue)
  \/ \E key \in Keys, ty \in Types :
       writers[1].pc = "start" /\ WriterCall(2, "Put", writers[1].base, key, ty, 2)
  \/ \E key \in Keys :
       writers[1].pc = "start" /\ WriterCall(2, "Remove", writers[1].base, key, NoType, NoValue)
  \/ \E w \in WriterIds : Step(w)

WritersSpec == Init /\ [][WritersNext]_vars

\* ---------------------------------------------------------------- observations
Versions == 1..Len(tries)
Derived(op) == {i \in Versions : tries[i].op = op /\ tries[i].pc = "done"}

\* tries[i].Get<ty>(k) on the heap as it is now
GetOn(i, k, ty) == Get(heap, tries[i].root, k, ty)

\* the base Trie of version i
BaseOf(i) == tries[i].base

\* the two Tries answer every Get alike
SameContent(i, j) == \A k \in Keys, ty \in Types : GetOn(i, k, ty) = GetOn(j, k, ty)

\* some type finds a value at k
Holds(i, k) == \E ty \in Types : GetOn(i, k, ty).status = "found"

\* p is a proper prefix of k
ProperPrefix(p, k) == Len(p) < Len(k) /\ SubSeq(k, 1, Len(p)) = p

\* the node Get's walk ends on, nullptr when the walk falls off the trie
RECURSIVE NodeAt(_, _, _)
NodeAt(h, root, key) ==
  IF root = Null \/ key = <<>> THEN root
  ELSE IF key[1] \notin DOMAIN h[root].children_ THEN Null
  ELSE NodeAt(h, h[root].children_[key[1]], Tail(key))

\* ---------------------------------------------------------------- claims
\* C1 (round trip): every Trie returned by Put(k, v) answers Get<type(v)>(k)
\* with v, whatever k held before.
C1_RoundTrip ==
  \A i \in Derived("Put") :
    GetOn(i, tries[i].key, tries[i].type) = Found(tries[i].value)

\* a Put on a non-empty key that overwrote a value of another type
C1_Witness ==
  \E i \in Derived("Put") :
    /\ tries[i].key # <<>>
    /\ \E ty \in Types \ {tries[i].type} :
         GetOn(BaseOf(i), tries[i].key, ty).status = "found"
    /\ GetOn(i, tries[i].key, tries[i].type) = Found(tries[i].value)

\* C2 (Put isolation): every key other than k answers every Get alike on t
\* and on t.Put(k, v).
C2_PutIsolation ==
  \A i \in Derived("Put") :
    \A k \in Keys \ {tries[i].key}, ty \in Types :
      GetOn(i, k, ty) = GetOn(BaseOf(i), k, ty)

\* a Put below a key that holds a value, next to a sibling that holds one
C2_Witness ==
  \E i \in Derived("Put") :
    /\ Len(tries[i].key) = 2
    /\ Holds(BaseOf(i), SubSeq(tries[i].key, 1, 1))
    /\ \E k \in Keys \ {tries[i].key} :
         /\ Len(k) = 2 /\ k[1] = tries[i].key[1]
         /\ Holds(BaseOf(i), k) /\ Holds(i, k)

\* C3 (snapshot immutability): a step never changes a node that exists already,
\* it only allocates; so every Trie returned so far answers every Get after
\* the step as it did before.
C3_SnapshotImmutable ==
  [][/\ Len(heap') >= Len(heap)
     /\ \A id \in 1..Len(heap) : heap'[id] = heap[id]
     /\ \A i \in Versions : \A k \in Keys, ty \in Types :
          Get(heap', tries[i].root, k, ty) = Get(heap, tries[i].root, k, ty)]_vars

\* a Put and a Remove that each rewrote a two-symbol path of a Trie with a root
C3_Witness ==
  /\ \E i \in Derived("Put") :
       Len(tries[i].key) = 2 /\ NodeAt(heap, tries[BaseOf(i)].root, tries[i].key) # Null
  /\ \E i \in Derived("Remove") :
       Len(tries[i].key) = 2 /\ Holds(BaseOf(i), tries[i].key)

\* C4 (Remove effect): t.Remove(k) finds nothing at k for any type, and answers
\* every other key as t does.
C4_RemoveEffect ==
  \A i \in Derived("Remove") :
    /\ \A ty \in Types : GetOn(i, tries[i].key, ty) = NotFound
    /\ \A k \in Keys \ {tries[i].key}, ty \in Types :
         GetOn(i, k, ty) = GetOn(BaseOf(i), k, ty)

\* a Remove of a stored key that has a stored extension and a stored sibling
C4_Witness ==
  \E i \in Derived("Remove") :
    /\ Len(tries[i].key) = 1
    /\ Holds(BaseOf(i), tries[i].key)
    /\ \E k \in Keys : ProperPrefix(tries[i].key, k) /\ Holds(i, k)
    /\ \E k \in Keys : Len(k) = 1 /\ k # tries[i].key /\ Holds(i, k)

\* C5 (overwrite preserves descendants): after t.Put(k, v) every stored key
\* that properly extends k answers as in t, and k's node keeps the child nodes
\* (same instances) that k's node had in t.
C5_OverwriteKeepsDescendants ==
  \A i \in Derived("Put") :
    LET k == tries[i].key
        old == NodeAt(heap, tries[BaseOf(i)].root, k)
        new == NodeAt(heap, tries[i].root, k)
    IN /\ \A k2 \in Keys, ty \in Types :
            ProperPrefix(k, k2) /\ Holds(BaseOf(i), k2)
              => GetOn(i, k2, ty) = GetOn(BaseOf(i), k2, ty)
       /\ old # Null => new # Null /\ heap[new].children_ = heap[old].children_

\* both cases: k held a value with a stored descendant, and k was an interior
\* node without a value
C5_Witness ==
  /\ \E i \in Derived("Put") :
       /\ Holds(BaseOf(i), tries[i].key)
       /\ \E k2 \in Keys : ProperPrefix(tries[i].key, k2) /\ Holds(i, k2)
  /\ \E i \in Derived("Put") :
       /\ ~Holds(BaseOf(i), tries[i].key)
       /\ \E k2 \in Keys : ProperPrefix(tries[i].key, k2) /\ Holds(BaseOf(i), k2) /\ Holds(i, k2)

\* C6 (no-op removal): Remove of a key that holds no value returns a Trie that
\* answers every Get as the base does.
C6_NoOpRemove ==
  \A i \in Derived("Remove") :
    ~Holds(BaseOf(i), tries[i].key) => SameContent(i, BaseOf(i))

\* the no-op cases on a Trie that stores something: an absent path, and an
\* interior node without a value
C6_Witness ==
  /\ \E i \in Derived("Remove") :
       /\ Len(tries[i].key) = 2
       /\ NodeAt(heap, tries[BaseOf(i)].root, tries[i].key) = Null
       /\ Holds(i, SubSeq(tries[i].key, 1, 1))
  /\ \E i \in Derived("Remove") :
       LET n == NodeAt(heap, tries[BaseOf(i)].root, tries[i].key)
       IN n # Null /\ ~heap[n].is_value_node_ /\ \E k \in Keys : Holds(i, k)

\* C7 (idempotent remove): t.Remove(k).Remove(k) answers every Get as
\* t.Remove(k) does.
C7_IdempotentRemove ==
  \A i \in Derived("Remove") :
    tries[BaseOf(i)].op = "Remove" /\ tries[BaseOf(i)].key = tries[i].key
      => SameContent(i, BaseOf(i))

\* k removed twice from a Trie that held k and another key
C7_Witness ==
  \E i \in Derived("Remove") :
    /\ tries[BaseOf(i)].op = "Remove" /\ tries[BaseOf(i)].key = tries[i].key
    /\ Holds(BaseOf(BaseOf(i)), tries[i].key)
    /\ \E k \in Keys : Holds(i, k)

\* C8 (type mismatch): a value put with one type is not found, without a
\* fault, under every other type; an overwrite with another type makes the
\* old type not found and the new one return the new value.
C8_TypeMismatch ==
  /\ \A i \in Versions, k \in Keys, ty \in Types :
       GetOn(i, k, ty).status = "found"
         => \A t2 \in Types \ {ty} : GetOn(i, k, t2) = NotFound
  /\ \A i \in Derived("Put") : \A t1 \in Types \ {tries[i].type} :
       /\ GetOn(i, tries[i].key, t1) = NotFound
       /\ GetOn(i, tries[i].key, tries[i].type) = Found(tries[i].value)

\* a value of one type overwritten by a value of the other type
C8_Witness ==
  \E i \in Derived("Put") : \E t1 \in Types \ {tries[i].type} :
    /\ GetOn(BaseOf(i), tries[i].key, t1).status = "found"
    /\ GetOn(BaseOf(i), tries[i].key, t1).value # tries[i].value
    /\ GetOn(i, tries[i].key, t1) = NotFound

\* the nodes a walk from root can reach
RECURSIVE ReachFrom(_, _)
ReachFrom(h, ids) ==
  LET more == ids \cup UNION {{h[id].children_[c] : c \in DOMAIN h[id].children_} : id \in ids}
  IN IF more = ids THEN ids ELSE ReachFrom(h, more)

Reach(h, root) == IF root = Null THEN {} ELSE ReachFrom(h, {root} \ {Null}) \ {Null}

\* C9 (readers never race with writers): a Get interleaved step by step with
\* Put / Remove calls that derive new versions returns what it returns when
\* run alone, and no step writes a node that a running Get can reach from its
\* Trie.
C9_ReadersNeverRace ==
  /\ [](\A r \in ReaderIds : readers[r].pc = "done" => readers[r].result = readers[r].alone)
  /\ [][\A r \in ReaderIds : readers[r].pc \in {"start", "walk"} =>
          \A id \in Reach(heap, readers[r].root_) : heap'[id] = heap[id]]_vars

\* a Get in the middle of its walk on t while a Put or Remove derived from t,
\* on a key below the same first symbol, is in the middle of rewriting the path
C9_Witness ==
  \E r \in ReaderIds :
    /\ readers[r].pc = "walk" /\ readers[r].i = 1 /\ Len(readers[r].key) = 2
    /\ readers[r].alone.status = "found"
    /\ writers[1].pc \in {"loop", "enter", "unwind"}
    /\ writers[1].steps >= 2
    /\ writers[1].base = readers[r].trie
    /\ Len(writers[1].key) = 2 /\ writers[1].key[1] = readers[r].key[1]

\* C10 (totality): no call of Put or Remove ends in a fault, each returns
\* within a number of steps bounded by its key length, and Get on every Trie
\* returned, for every key and type, returns a value or not found.
C10_Totality ==
  /\ \A i \in Versions :
       /\ tries[i].pc = "done"
       /\ tries[i].steps <= 2 * Len(tries[i].key) + 1
  /\ \A i \in Versions, k \in Keys, ty \in Types :
       GetOn(i, k, ty).status \in {"found", "nullptr"}

\* Remove on the empty Trie, Put of the empty key, Remove of a key whose node
\* holds no value, and a key whose path is only partly present
C10_Witness ==
  /\ \E i \in Derived("Remove") : tries[BaseOf(i)].root = Null /\ tries[i].key # <<>>
  /\ \E i \in Derived("Put") : tries[i].key = <<>>
  /\ \E i \in Derived("Remove") :
       LET n == NodeAt(heap, tries[BaseOf(i)].root, tries[i].key)
       IN n # Null /\ ~heap[n].is_value_node_
  /\ \E k \in Keys : Len(k) = 2 /\ NodeAt(heap, tries[Len(tries)].root, k) = Null
                        /\ NodeAt(heap, tries[Len(tries)].root, SubSeq(k, 1, 1)) # Null

\* C11 (empty key): Put of the empty key returns a Trie whose root is a new
\* value node holding v with the old root's children map (none on the empty
\* Trie), so Get of the empty key returns v and every non-empty key answers
\* as before; Get of any key on a Trie without a root finds nothing.
C11_EmptyKey ==
  /\ \A i \in Derived("Put") :
       tries[i].key = <<>> =>
         LET old == tries[BaseOf(i)].root
             new == tries[i].root
         IN /\ new # Null /\ new \notin Reach(heap, old)
            /\ heap[new].is_value_node_
            /\ heap[new].children_ = IF old = Null THEN EmptyMap ELSE heap[old].children_
            /\ GetOn(i, <<>>, tries[i].type) = Found(tries[i].value)
            /\ \A k \in Keys \ {<<>>}, ty \in Types :
                 GetOn(i, k, ty) = GetOn(BaseOf(i), k, ty)
  /\ \A i \in Versions :
       tries[i].root = Null => \A k \in Keys, ty \in Types : GetOn(i, k, ty) = NotFound

\* the empty key put on the empty Trie, and put on a Trie that stores
\* a two-symbol key
C11_Witness ==
  /\ \E i \in Derived("Put") : tries[i].key = <<>> /\ tries[BaseOf(i)].root = Null
  /\ \E i \in Derived("Put") :
       /\ tries[i].key = <<>>
       /\ \E k \in Keys : Len(k) = 2 /\ Holds(BaseOf(i), k) /\ Holds(i, k)

\* a node without children and without a value
Dangling(h, id) == DOMAIN h[id].children_ = {} /\ ~h[id].is_value_node_

\* C12 (no dangling nodes): in every Trie returned by Put or Remove, no node
\* other than the root is both childless and without a value.
C12_NoDanglingNodes ==
  \A i \in Versions :
    \A id \in Reach(heap, tries[i].root) \ {tries[i].root} : ~Dangling(heap, id)

\* a Remove that pruned a two-symbol branch next to a stored key, and a Remove
\* of an absent key, each leaving a Trie with nodes
C12_Witness ==
  /\ \E i \in Derived("Remove") :
       /\ Len(tries[i].key) = 2 /\ Holds(BaseOf(i), tries[i].key)
       /\ NodeAt(heap, tries[i].root, SubSeq(tries[i].key, 1, 1)) = Null
       /\ tries[i].root # Null
  /\ \E i \in Derived("Remove") :
       /\ tries[i].key # <<>>
       /\ NodeAt(heap, tries[BaseOf(i)].root, tries[i].key) = Null
       /\ Reach(heap, tries[i].root) \ {tries[i].root} # {}

\* p is k or a prefix of k: the node at p lies on the path of k
OnPath(p, k) == Len(p) <= Len(k) /\ SubSeq(k, 1, Len(p)) = p

\* the nodes of the Tries returned before version i
NodesBefore(i) == UNION {Reach(heap, tries[j].root) : j \in 1..(i - 1)}

\* C13 (structural sharing in Put): in t.Put(k, v) the node at every prefix of
\* k and at k is a new instance, no node of t (nor of any earlier Trie); the
\* node at every other position is the same instance as in t.
C13_PutSharing ==
  \A i \in Derived("Put") :
    \A p \in Keys :
      LET new == NodeAt(heap, tries[i].root, p)
          old == NodeAt(heap, tries[BaseOf(i)].root, p)
      IN IF OnPath(p, tries[i].key)
           THEN new # Null /\ new \notin NodesBefore(i)
           ELSE new = old

\* a Put of a two-symbol key whose whole path exists in t, below a node with
\* another child and next to another subtree of the root
C13_Witness ==
  \E i \in Derived("Put") :
    LET k == tries[i].key
        t == tries[BaseOf(i)].root
    IN /\ Len(k) = 2 /\ NodeAt(heap, t, k) # Null
       /\ \E p \in Keys : Len(p) = 2 /\ p # k /\ p[1] = k[1] /\ NodeAt(heap, t, p) # Null
       /\ \E p \in Keys : Len(p) = 1 /\ p[1] # k[1] /\ NodeAt(heap, t, p) # Null

\* the two Tries have nodes at the same positions, with the same value flag,
\* type and value at each
SameShape(i, j) ==
  \A p \in Keys :
    LET a == NodeAt(heap, tries[i].root, p)
        b == NodeAt(heap, tries[j].root, p)
    IN /\ (a = Null) = (b = Null)
       /\ a # Null /\ b # Null =>
            /\ heap[a].is_value_node_ = heap[b].is_value_node_
            /\ heap[a].type = heap[b].type
            /\ heap[a].value_ = heap[b].value_

\* C14 (pruning undoes an insertion): for a key k without a value in t,
\* t.Put(k, v).Remove(k) has the shape of t: nodes at the same positions with
\* the same flags and values; from the empty Trie it is the empty Trie again.
C14_RemoveUndoesPut ==
  \A i \in Derived("Remove") :
    LET j == BaseOf(i) IN
    tries[j].op = "Put" /\ tries[j].key = tries[i].key /\ ~Holds(BaseOf(j), tries[i].key)
      => /\ SameShape(i, BaseOf(j))
         /\ tries[BaseOf(j)].root = Null => tries[i].root = Null

\* a two-symbol key put and removed again on a Trie that stores another key
\* and has no node on the key's path but the root: both nodes made for the
\* key are pruned, the root stays
C14_Witness ==
  \E i \in Derived("Remove") :
    LET j == BaseOf(i) IN
    /\ tries[j].op = "Put" /\ tries[j].key = tries[i].key
    /\ Len(tries[i].key) = 2
    /\ tries[BaseOf(j)].root # Null
    /\ NodeAt(heap, tries[BaseOf(j)].root, SubSeq(tries[i].key, 1, 1)) = Null
    /\ NodeAt(heap, tries[j].root, tries[i].key) # Null
    /\ NodeAt(heap, tries[i].root, SubSeq(tries[i].key, 1, 1)) = Null
    /\ \E k \in Keys : Holds(i, k)

\* C15 (Remove of the empty key on a value root): with children, the new root
\* is a new node without a value whose children map holds the old root's
\* child instances; without children, the returned Trie has no root.
C15_RemoveEmptyKeyOnValueRoot ==
  \A i \in Derived("Remove") :
    LET old == tries[BaseOf(i)].root
        new == tries[i].root
    IN tries[i].key = <<>> /\ old # Null /\ heap[old].is_value_node_
         => IF DOMAIN heap[old].children_ # {}
              THEN /\ new # Null /\ new \notin NodesBefore(i)
                   /\ ~heap[new].is_value_node_ /\ heap[new].type = NoType
                   /\ heap[new].children_ = heap[old].children_
              ELSE new = Null

\* the empty key removed from a value root that has a subtree of two levels
C15_Witness ==
  \E i \in Derived("Remove") :
    LET old == tries[BaseOf(i)].root
    IN /\ tries[i].key = <<>> /\ old # Null /\ heap[old].is_value_node_
       /\ \E k \in Keys : Len(k) = 2 /\ Holds(BaseOf(i), k) /\ Holds(i, k)
       /\ ~Holds(i, <<>>)

\* a Remove that finds no value at its key in a Trie with a root
NoOpRemove(i) ==
  LET n == NodeAt(heap, tries[BaseOf(i)].root, tries[i].key)
  IN /\ tries[i].op = "Remove" /\ tries[i].pc = "done"
     /\ tries[BaseOf(i)].root # Null
     /\ (n = Null \/ ~heap[n].is_value_node_)

\* C16 as stated: a no-op Remove on a Trie with a root returns a new root,
\* another instance than t's root, with the same children entries (symbol and
\* child instance) and the same value flag as t's root.
C16_Original ==
  \A i \in Versions :
    NoOpRemove(i) =>
      LET old == tries[BaseOf(i)].root
          new == tries[i].root
      IN /\ new # Null /\ new # old /\ new \notin NodesBefore(i)
         /\ heap[new].children_ = heap[old].children_
         /\ heap[new].is_value_node_ = heap[old].is_value_node_

\* C16 (amended): a no-op Remove on a Trie with a root returns a new root,
\* another instance than t's root, with the same child symbols, value flag
\* and value; every existing node on the key's path above the key's last
\* symbol is a new clone too, every other node is the same instance as in t;
\* and no step changes the root (or any node) of a Trie returned before.
C16_NoOpRemoveFreshRoot ==
  /\ [](\A i \in Versions :
         NoOpRemove(i) =>
           \A p \in Keys :
             LET old == NodeAt(heap, tries[BaseOf(i)].root, p)
                 new == NodeAt(heap, tries[i].root, p)
             IN IF old # Null /\ (p = <<>> \/ (OnPath(p, tries[i].key) /\ Len(p) < Len(tries[i].key)))
                  THEN /\ new # Null /\ new # old /\ new \notin NodesBefore(i)
                       /\ DOMAIN heap[new].children_ = DOMAIN heap[old].children_
                       /\ heap[new].is_value_node_ = heap[old].is_value_node_
                       /\ heap[new].type = heap[old].type
                       /\ heap[new].value_ = heap[old].value_
                  ELSE new = old)
  /\ [][\A i \in Versions : \A id \in Reach(heap, tries[i].root) : heap'[id] = heap[id]]_vars

\* a no-op Remove of a two-symbol key whose first symbol has a node in t: the
\* new root's entry for that symbol is a clone, its other entry is shared
C16_Witness ==
  \E i \in Versions :
    /\ NoOpRemove(i)
    /\ Len(tries[i].key) = 2
    /\ LET old == tries[BaseOf(i)].root
           new == tries[i].root
           c == tries[i].key[1]
       IN /\ c \in DOMAIN heap[old].children_
          /\ heap[new].children_[c] # heap[old].children_[c]
          /\ \E d \in DOMAIN heap[old].children_ \ {c} :
               heap[new].children_[d] = heap[old].children_[d]

\* the call that returned version i, run alone from entry to return on its base
Alone(i) ==
  CallRun(heap, CallEntry(tries[i].op, tries[i].base, tries[tries[i].base].root,
                          tries[i].key, tries[i].type, tries[i].value))

\* C17 (independent concurrent writers): whatever the interleaving of the
\* steps of two Put / Remove calls, each returned Trie answers every Get as
\* the Trie its call returns when run alone on its base (so it holds that
\* call's change only), and no step changes a node of a Trie returned before,
\* the base included.
C17_IndependentWriters ==
  /\ [](\A i \in Versions \ {1} :
         LET o == Alone(i)
         IN /\ tries[i].pc = "done" /\ o.w.pc = "done"
            /\ \A k \in Keys, ty \in Types :
                 GetOn(i, k, ty) = Get(o.h, o.w.ret, k, ty))
  /\ [][\A i \in Versions :
          \A id \in Reach(heap, tries[i].root) : heap'[id] = heap[id]]_vars

\* both writers in the middle of a call on the same Trie, which has a node
\* under the first symbol of both two-symbol keys, each having made nodes
C17_Witness ==
  /\ Running(writers[1]) /\ Running(writers[2])
  /\ writers[1].steps >= 2 /\ writers[2].steps >= 2
  /\ writers[1].base = writers[2].base
  /\ writers[1].key # writers[2].key
  /\ Len(writers[1].key) = 2 /\ Len(writers[2].key) = 2
  /\ writers[1].key[1] = writers[2].key[1]
  /\ NodeAt(heap, writers[1].root_, SubSeq(writers[1].key, 1, 1)) # Null

\* no entry of the abstract map
NoEntry == [type |-> NoType, value |-> NoValue]

\* the abstract map after the calls that led to version i: Put sets the entry
\* of its key to (type, value), Remove deletes it
RECURSIVE AbstractMap(_)
AbstractMap(i) ==
  IF tries[i].op = "Trie" THEN [k \in Keys |-> NoEntry]
  ELSE LET m == AbstractMap(BaseOf(i))
       IN IF tries[i].op = "Put"
            THEN [m EXCEPT ![tries[i].key] = [type |-> tries[i].type, value |-> tries[i].value]]
            ELSE [m EXCEPT ![tries[i].key] = NoEntry]

\* C18 (refinement of a finite map): after any sequence of Put and Remove
\* from the empty Trie, Get<T>(k) returns v exactly when the abstract map
\* updated by the same calls holds (T, v) at k, and finds nothing otherwise.
C18_RefinesMap ==
  \A i \in Versions :
    LET m == AbstractMap(i)
    IN \A k \in Keys, ty \in Types :
         GetOn(i, k, ty) = IF m[k].type = ty THEN Found(m[k].value) ELSE NotFound

\* a Trie, made by three Puts and a Remove, that stores two keys and not
\* their common one-symbol prefix, which still has a node
C18_Witness ==
  \E i \in Derived("Remove") :
    LET k == tries[i].key
    IN /\ Len(k) = 1 /\ Holds(BaseOf(i), k) /\ ~Holds(i, k)
       /\ NodeAt(heap, tries[i].root, k) # Null
       /\ \A k2 \in Keys : ProperPrefix(k, k2) => Holds(i, k2)
       /\ AbstractMap(i)[k] = NoEntry

\* C19 (the root is never dangling): the root of every Trie returned is absent,
\* or holds a value, or has a child; it is absent exactly when the Trie
\* stores no key, so removing the last stored key returns a Trie without root.
C19_RootNeverDangling ==
  \A i \in Versions :
    LET r == tries[i].root
    IN /\ r # Null => ~Dangling(heap, r)
       /\ (r = Null) = (\A k \in Keys : ~Holds(i, k))
       /\ tries[i].op = "Remove" /\ (\A k \in Keys \ {tries[i].key} : ~Holds(BaseOf(i), k))
            => r = Null

\* the last stored key removed, a two-symbol key and the empty key: each time
\* the Trie had a root before and has none after
C19_Witness ==
  /\ \E i \in Derived("Remove") :
       /\ Len(tries[i].key) = 2 /\ Holds(BaseOf(i), tries[i].key)
       /\ tries[BaseOf(i)].root # Null /\ tries[i].root = Null
  /\ \E i \in Derived("Remove") :
       /\ tries[i].key = <<>> /\ Holds(BaseOf(i), <<>>)
       /\ tries[BaseOf(i)].root # Null /\ tries[i].root = Null

====
